---------------------------- MODULE Spec2Model ----------------------------
(***************************************************************************)
(* The blocking-I/O coordinator of org_conscrypt_NativeCrypto.cpp: the     *)
(* per-connection AppData (aliveAndKicking, waitingThreads, the emergency  *)
(* pipe, the mutex), sslNotify, sslSelect, and the drivers built on them   *)
(* (NativeCrypto_SSL_do_handshake, sslRead / NativeCrypto_SSL_read,        *)
(* sslWrite / NativeCrypto_SSL_write, NativeCrypto_SSL_interrupt,          *)
(* NativeCrypto_SSL_shutdown, NativeCrypto_SSL_free).                      *)
(*                                                                         *)
(* Threads: "r" runs the read-direction calls (handshake or read), "w"     *)
(* runs write calls, "i" calls interrupt, "c" calls shutdown / free.  The  *)
(* TLS engine (SSL_read, SSL_write, SSL_do_handshake, SSL_shutdown), the   *)
(* socket and poll(2) are the environment: each engine call and each poll  *)
(* returns one of the outcomes the code distinguishes, chosen freely.      *)
(*                                                                         *)
(* One action is one stretch of code between two points where another      *)
(* thread can observe or change the shared state.                          *)
(*                                                                         *)
(* Two parts of the code are also modelled on their own: AppData::create   *)
(* with the process's descriptor table (SpecCreate), and one sslNotify     *)
(* call taken system call by system call (SpecNotify).                     *)
(***************************************************************************)
EXTENDS Integers, FiniteSets, Sequences, TLC

\* ------------------------------------------------------------------ bounds
\* Longest buffer passed to read / write.
MaxLen == 2
\* Largest positive timeout_millis passed by a caller.
MaxTimeout == 1
\* Bytes the emergency pipe holds before write(2) on it blocks.
PipeCapacity == 2
\* Descriptor numbers of the process: 0 .. MaxFds - 1.
MaxFds == 5

\* --------------------------------------------------------------- constants
THROW_SSLEXCEPTION == -2
THROW_SOCKETTIMEOUTEXCEPTION == -3
THROWN_EXCEPTION == -4
\* errno values: E0 is 0, "no error"; EOTHER stands for every errno that is
\* neither EINTR nor EAGAIN (the code only ever compares errno with EINTR
\* and with 0).
E0 == "0"
EINTR == "EINTR"
EAGAIN == "EAGAIN"
EOTHER == "EOTHER"
Errnos == {E0, EINTR, EAGAIN, EOTHER}

\* SSL_get_error classes the drivers switch on.
SslErrors == {"NONE", "ZERO_RETURN", "WANT_READ", "WANT_WRITE", "SYSCALL", "SSL"}
IsWant(e) == e \in {"WANT_READ", "WANT_WRITE"}

OpThreads == {"r", "w"}
Threads == {"r", "w", "i", "c"}
Callers == {"i"}
Timeouts == -1 .. MaxTimeout
Lens == 0 .. MaxLen
Fds == 0 .. MaxFds - 1

VARIABLES
    aliveAndKicking,  \* AppData::aliveAndKicking (1 / 0)
    waitingThreads,   \* AppData::waitingThreads
    fdsEmergency,     \* number of bytes in the emergency pipe
    mutex,            \* AppData::mutex: "free" or the owning thread
    freed,            \* AppData deleted by NativeCrypto_SSL_free
    fdClosed,         \* NetFd::isClosed() of the socket's FileDescriptor
    sockBlocking,     \* socket is in blocking mode (O_NONBLOCK clear)
    initFinished,     \* SSL_is_init_finished || SSL_in_false_start || SSL_renegotiate_pending
    pc,               \* per thread: where it is in its call ("idle": in Java)
    op,               \* per thread: the call it is in ("none": in Java)
    count,            \* per op thread: the len the call was entered with
    len,              \* per op thread: the remaining len (sslWrite advances it)
    timeout,          \* per op thread: the timeout sslSelect hands to poll for the call
    errno,            \* per thread: errno
    sslError,         \* per op thread: OpenSslError::get()
    result,           \* per op thread: return value of the last engine call
    selRes,           \* per op thread: sslSelect's result
    revPipe,          \* per op thread: fds[1].revents & POLLIN
    written,          \* per op thread: sum of the results of the successful SSL_write steps
    returned,         \* the return to Java made by the latest step, if it made one
    wakeFor           \* per op thread: where it was ("select": registered, not yet
                      \* polling; "poll") when another driver called sslNotify for
                      \* it and its poll has not returned since; else "none"

\* The construction of an AppData by NativeCrypto_SSL_new, and one call of
\* sslNotify taken system call by system call.
VARIABLES
    fdTable,          \* per descriptor number: "closed", "blocking" or "nonblocking"
    appData,          \* the AppData NativeCrypto_SSL_new made: its fields
    createRet,        \* what AppData::create returned last: "none", "nullptr", "appData"
    notifyPc,         \* where the sslNotify call is: "idle", "write", "restore"
    errnoBackup,      \* sslNotify's local errnoBackup
    notifyEntry,      \* errno of the caller when it called sslNotify
    notifyWrote       \* bytes the sslNotify call has put into the pipe

vars == <<aliveAndKicking, waitingThreads, fdsEmergency, mutex, freed, fdClosed,
          sockBlocking, initFinished, pc, op, count, len, timeout, errno, sslError,
          result, selRes, revPipe, written, returned, wakeFor,
          fdTable, appData, createRet, notifyPc, errnoBackup, notifyEntry,
          notifyWrote>>

connVars == <<aliveAndKicking, waitingThreads, fdsEmergency, mutex, freed, fdClosed,
              sockBlocking, initFinished, pc, op, count, len, timeout, errno, sslError,
              result, selRes, revPipe, written, returned, wakeFor>>
createVars == <<fdTable, appData, createRet>>
notifyVars == <<notifyPc, errnoBackup, notifyEntry, notifyWrote>>
unitVars == <<createVars, notifyVars>>

shared == <<aliveAndKicking, waitingThreads, fdsEmergency, mutex, freed, fdClosed,
            sockBlocking, initFinished>>

\* ------------------------------------------------------------ construction
\* AppData::AppData / AppData::create, before any call on the connection.
\* No AppData: the object is not allocated.
NoAppData == [alloc |-> FALSE, aliveAndKicking |-> 0, waitingThreads |-> 0,
              fdsEmergency |-> <<-1, -1>>, mutexSetup |-> FALSE]

NoReturn == [t |-> "none", op |-> "none", ret |-> 0, exc |-> "none", se |-> "NONE",
             dead |-> FALSE, count |-> 0, written |-> 0]

Init ==
    /\ aliveAndKicking = 1
    /\ waitingThreads = 0
    /\ fdsEmergency = 0
    /\ mutex = "free"
    /\ freed = FALSE
    /\ fdClosed = FALSE
    /\ sockBlocking = TRUE
    /\ initFinished = FALSE
    /\ pc = [t \in Threads |-> "idle"]
    /\ op = [t \in Threads |-> "none"]
    /\ count = [t \in OpThreads |-> 0]
    /\ len = [t \in OpThreads |-> 0]
    /\ timeout = [t \in OpThreads |-> 0]
    /\ errno = [t \in Threads |-> E0]
    /\ sslError = [t \in OpThreads |-> "NONE"]
    /\ result = [t \in OpThreads |-> 0]
    /\ selRes = [t \in OpThreads |-> 0]
    /\ revPipe = [t \in OpThreads |-> FALSE]
    /\ written = [t \in OpThreads |-> 0]
    /\ returned = NoReturn
    /\ wakeFor = [t \in OpThreads |-> "none"]
    /\ fdTable = [d \in Fds |-> "closed"]
    /\ appData = NoAppData
    /\ createRet = "none"
    /\ notifyPc = "idle"
    /\ errnoBackup = E0
    /\ notifyEntry = E0
    /\ notifyWrote = 0

\* The values the fields and locals take.
TypeOK ==
    /\ aliveAndKicking \in {0, 1}
    /\ waitingThreads \in Int
    /\ fdsEmergency \in 0 .. PipeCapacity
    /\ mutex \in {"free"} \cup OpThreads
    /\ freed \in BOOLEAN /\ fdClosed \in BOOLEAN
    /\ sockBlocking \in BOOLEAN /\ initFinished \in BOOLEAN
    /\ pc \in [Threads -> {"idle", "loop", "lock", "ssl", "hs_inc", "select", "poll",
                           "sel_lock", "fault", "notify1", "notify2", "shutdown_ssl"}]
    /\ op \in [Threads -> {"none", "read", "write", "handshake"}]
    /\ count \in [OpThreads -> Lens] /\ len \in [OpThreads -> Lens]
    /\ timeout \in [OpThreads -> Timeouts]
    /\ errno \in [Threads -> Errnos]
    /\ sslError \in [OpThreads -> SslErrors]
    /\ result \in [OpThreads -> -1 .. 1]
    /\ selRes \in [OpThreads -> {THROWN_EXCEPTION, -1, 0, 1, 2}]
    /\ revPipe \in [OpThreads -> BOOLEAN]
    /\ written \in [OpThreads -> Lens]
    /\ wakeFor \in [OpThreads -> {"none", "select", "poll"}]
    /\ fdTable \in [Fds -> {"closed", "blocking", "nonblocking"}]
    /\ appData.alloc \in BOOLEAN /\ appData.mutexSetup \in BOOLEAN
    /\ createRet \in {"none", "nullptr", "appData"}
    /\ notifyPc \in {"idle", "write", "restore"}
    /\ errnoBackup \in Errnos /\ notifyEntry \in Errnos
    /\ notifyWrote \in 0 .. 1

\* ---------------------------------------------------------------- helpers
\* One step of op thread t: its position and the C locals the step may write.
Step(t, newpc, e, se, res, sr, rp) ==
    /\ pc' = [pc EXCEPT ![t] = newpc]
    /\ errno' = [errno EXCEPT ![t] = e]
    /\ sslError' = [sslError EXCEPT ![t] = se]
    /\ result' = [result EXCEPT ![t] = res]
    /\ selRes' = [selRes EXCEPT ![t] = sr]
    /\ revPipe' = [revPipe EXCEPT ![t] = rp]

\* A step that changes t's position only.
Goto(t, newpc) ==
    Step(t, newpc, errno[t], sslError[t], result[t], selRes[t], revPipe[t])

\* JniReturn that reports a wait that timed out as a plain SSLException.
JniReturnTimeoutAsError(o, code, pending) ==
    CASE code \in {THROW_SSLEXCEPTION, THROW_SOCKETTIMEOUTEXCEPTION} ->
           [ret |-> IF o = "read" THEN -1 ELSE 0, exc |-> "SSLException"]
      [] code = THROWN_EXCEPTION ->
           [ret |-> IF o = "read" THEN -1 ELSE 0, exc |-> pending]
      [] OTHER ->
           [ret |-> IF o = "write" THEN 0 ELSE code, exc |-> pending]

\* What the JNI entry point hands to Java for the driver's return code:
\* NativeCrypto_SSL_read's switch, NativeCrypto_SSL_write's switch (a void
\* method: ret is 0), and NativeCrypto_SSL_do_handshake's own returns.
JniReturn(o, code, pending) ==
    CASE code = THROW_SSLEXCEPTION ->
           [ret |-> IF o = "read" THEN -1 ELSE 0, exc |-> "SSLException"]
      [] code = THROW_SOCKETTIMEOUTEXCEPTION ->
           [ret |-> IF o = "read" THEN -1 ELSE 0, exc |-> "SocketTimeoutException"]
      [] code = THROWN_EXCEPTION ->
           [ret |-> IF o = "read" THEN -1 ELSE 0, exc |-> pending]
      [] OTHER ->
           [ret |-> IF o = "write" THEN 0 ELSE code, exc |-> pending]

\* Op thread t's call returns to Java with return code `code` and exception
\* `pending`: the C locals die, and `returned` records the return.  dead: the
\* return is the one after a loop test that read aliveAndKicking == 0; se:
\* the sslError object at the return; w: bytes confirmed by SSL_write steps.
ReturnCode(t, code, pending, dead, se, w) ==
    /\ Step(t, "idle", E0, "NONE", 0, 0, FALSE)
    /\ count' = [count EXCEPT ![t] = 0]
    /\ len' = [len EXCEPT ![t] = 0]
    /\ timeout' = [timeout EXCEPT ![t] = 0]
    /\ written' = [written EXCEPT ![t] = 0]
    /\ returned' = [t |-> t, op |-> op[t],
                    ret |-> JniReturn(op[t], code, pending).ret,
                    exc |-> JniReturn(op[t], code, pending).exc,
                    se |-> se, dead |-> dead, count |-> count[t], written |-> w]
    /\ op' = [op EXCEPT ![t] = "none"]

ReturnWith(t, code, pending, dead, se, w) ==
    ReturnCode(t, code, pending, dead, se, w) /\ UNCHANGED wakeFor

Return(t, code, pending, dead) ==
    ReturnWith(t, code, pending, dead, sslError[t], written[t])

\* A step inside a call: the call's parameters stay.
inCall == <<op, count, len, timeout, written>>
callKeeps == returned' = NoReturn /\ UNCHANGED inCall
callUnchanged == callKeeps /\ UNCHANGED wakeFor

\* sslNotify: write(2) of one byte to fdsEmergency[1], a blocking descriptor:
\* the call cannot complete while the pipe is full.  errno is saved before
\* and restored after, so the caller's errno is left as it was.
sslNotifyCanWrite == fdsEmergency < PipeCapacity
sslNotify(p) == p + 1

\* The token read of sslSelect: do { read(fdsEmergency[0], &token, 1); }
\* while (errno == EINTR).  The read end is non-blocking: a read of an empty
\* pipe fails with EAGAIN; a successful read leaves errno as it was, so the
\* loop runs again while errno is still EINTR from an interrupted poll.
RECURSIVE DrainToken(_, _)
DrainToken(p, e) ==
    IF p = 0 THEN [pipe |-> 0, errno |-> EAGAIN]
    ELSE IF e = EINTR THEN DrainToken(p - 1, e)
    ELSE [pipe |-> p - 1, errno |-> e]

\* The handshake's tail after its loop (the "clean error" / "unclean error" /
\* success returns of NativeCrypto_SSL_do_handshake).
HandshakeTail(r, se, e) ==
    IF r = 0 THEN
        IF se = "NONE" \/ (se = "SYSCALL" /\ e = E0) \/ se = "ZERO_RETURN"
        THEN "SSLHandshakeException:closed"
        ELSE "SSLHandshakeException:terminated"
    ELSE IF r < 0 THEN "SSLHandshakeException:aborted"
    ELSE "none"


\* ------------------------------------------------- entry points (r and w)
\* PollTimeoutArg that hands a timeout of 0 to poll as it is.
PollTimeoutArgZero(tm) == IF tm < 0 THEN -1 ELSE tm

\* The timeout sslSelect hands to poll for a call entered with timeout_millis
\* tm: "if (timeout_millis <= 0) timeout_millis = -1" (the conversion is all
\* the code does with the parameter, so the call keeps the converted value).
PollTimeoutArg(tm) == IF tm <= 0 THEN -1 ELSE tm

\* The Java layer lets at most one reader and one writer into the native
\* code, and runs a handshake alone.
InFlight(t) == pc[t] # "idle"
Exclusive(t, o) ==
    \A u \in OpThreads \ {t} :
        InFlight(u) => (o # "handshake" /\ op[u] # "handshake")

CanEnter(t, o) == pc[t] = "idle" /\ ~freed /\ Exclusive(t, o)

\* sslEnter without the "if (len == 0) return 0;" test.
sslEnterNoLengthTest(t, o, n, tm) ==
    /\ pc' = [pc EXCEPT ![t] = "loop"]
    /\ op' = [op EXCEPT ![t] = o]
    /\ count' = [count EXCEPT ![t] = n]
    /\ len' = [len EXCEPT ![t] = n]
    /\ timeout' = [timeout EXCEPT ![t] = PollTimeoutArg(tm)]
    /\ returned' = NoReturn
    /\ UNCHANGED <<shared, errno, sslError, result, selRes, revPipe, written, wakeFor>>

\* sslRead / sslWrite up to their loop: "if (len == 0) return 0;".
sslEnter(t, o, n, tm) ==
    /\ IF n = 0
       THEN /\ returned' = [t |-> t, op |-> o, ret |-> 0, exc |-> "none", se |-> "NONE",
                            dead |-> FALSE, count |-> 0, written |-> 0]
            /\ UNCHANGED <<pc, op, count, len, timeout>>
       ELSE /\ pc' = [pc EXCEPT ![t] = "loop"]
            /\ op' = [op EXCEPT ![t] = o]
            /\ count' = [count EXCEPT ![t] = n]
            /\ len' = [len EXCEPT ![t] = n]
            /\ timeout' = [timeout EXCEPT ![t] = PollTimeoutArg(tm)]
            /\ returned' = NoReturn
    /\ UNCHANGED <<shared, errno, sslError, result, selRes, revPipe, written, wakeFor>>

NativeCrypto_SSL_read(t) ==
    /\ t = "r" /\ CanEnter(t, "read")
    /\ \E n \in Lens, tm \in Timeouts : sslEnter(t, "read", n, tm)
    /\ UNCHANGED unitVars

NativeCrypto_SSL_write(t) ==
    /\ t = "w" /\ CanEnter(t, "write")
    /\ \E n \in Lens, tm \in Timeouts : sslEnter(t, "write", n, tm)
    /\ UNCHANGED unitVars

\* NativeCrypto_SSL_do_handshake that goes on to its loop when
\* setBlocking(fd, false) fails.
NativeCrypto_SSL_do_handshakeAnyMode(t) ==
    /\ t = "r" /\ CanEnter(t, "handshake")
    /\ \E tm \in Timeouts, pre \in {"ok", "set_fd_fails", "fcntl_fails"} :
        /\ IF fdClosed \/ pre = "set_fd_fails"
           THEN /\ returned' = [t |-> t, op |-> "handshake", ret |-> 0,
                                exc |-> IF fdClosed THEN "SocketException"
                                        ELSE "SSLException",
                                se |-> "NONE", dead |-> FALSE, count |-> 0, written |-> 0]
                /\ initFinished' = FALSE
                /\ UNCHANGED <<pc, op, timeout, sockBlocking>>
           ELSE /\ pc' = [pc EXCEPT ![t] = "loop"]
                /\ op' = [op EXCEPT ![t] = "handshake"]
                /\ timeout' = [timeout EXCEPT ![t] = PollTimeoutArg(tm)]
                /\ sockBlocking' = IF pre = "ok" THEN FALSE ELSE sockBlocking
                /\ returned' = NoReturn
                /\ UNCHANGED initFinished
    /\ UNCHANGED <<aliveAndKicking, waitingThreads, fdsEmergency, mutex, freed,
                   fdClosed, count, len, errno, sslError, result, selRes, revPipe,
                   written, wakeFor>>
    /\ UNCHANGED unitVars

\* NativeCrypto_SSL_do_handshake up to its loop: the closed check, SSL_set_fd,
\* setBlocking(fd, false).  pre is what SSL_set_fd and fcntl do.
NativeCrypto_SSL_do_handshake(t) ==
    /\ t = "r" /\ CanEnter(t, "handshake")
    /\ \E tm \in Timeouts, pre \in {"ok", "set_fd_fails", "fcntl_fails"} :
        /\ IF fdClosed \/ pre # "ok"
           THEN /\ returned' = [t |-> t, op |-> "handshake", ret |-> 0,
                                exc |-> IF fdClosed THEN "SocketException"
                                        ELSE "SSLException",
                                se |-> "NONE", dead |-> FALSE, count |-> 0, written |-> 0]
                /\ initFinished' = FALSE
                /\ UNCHANGED <<pc, op, timeout, sockBlocking>>
           ELSE /\ pc' = [pc EXCEPT ![t] = "loop"]
                /\ op' = [op EXCEPT ![t] = "handshake"]
                /\ timeout' = [timeout EXCEPT ![t] = PollTimeoutArg(tm)]
                /\ sockBlocking' = FALSE
                /\ returned' = NoReturn
                /\ UNCHANGED initFinished
    /\ UNCHANGED <<aliveAndKicking, waitingThreads, fdsEmergency, mutex, freed,
                   fdClosed, count, len, errno, sslError, result, selRes, revPipe,
                   written, wakeFor>>
    /\ UNCHANGED unitVars

\* LoopTest whose loop conditions do not read aliveAndKicking.
LoopTestIgnoresCancel(t) ==
    /\ t \in OpThreads /\ pc[t] = "loop" /\ ~freed
    /\ UNCHANGED <<aliveAndKicking, waitingThreads, fdsEmergency, mutex, freed,
                   fdClosed, sockBlocking>>
    /\ CASE op[t] = "read" ->
              /\ UNCHANGED initFinished
              /\ IF TRUE
                 THEN /\ Step(t, "lock", E0, sslError[t], 0, 0, FALSE)
                      /\ callUnchanged
                 ELSE Return(t, -1, "none", TRUE)
         [] op[t] = "write" ->
              /\ UNCHANGED initFinished
              /\ IF TRUE /\ len[t] > 0
                 THEN /\ Step(t, "lock", E0, sslError[t], 0, 0, FALSE)
                      /\ callUnchanged
                 ELSE Return(t, count[t], "none", aliveAndKicking = 0 /\ len[t] > 0)
         [] op[t] = "handshake" ->
              IF TRUE
              THEN IF fdClosed
                   THEN /\ Return(t, 0, "SocketException", FALSE)
                        /\ initFinished' = FALSE
                   ELSE /\ Step(t, "ssl", E0, sslError[t], result[t], 0, FALSE)
                        /\ callUnchanged /\ UNCHANGED initFinished
              ELSE /\ Return(t, 0, HandshakeTail(result[t], sslError[t], errno[t]), TRUE)
                   /\ initFinished' = FALSE
    /\ UNCHANGED unitVars

\* ------------------------------------------------------- the driver loops
\* "while (appData->aliveAndKicking ...)" of the three drivers; errno = 0;
\* for the handshake also setCallbackState, after which the thread is inside
\* SSL_do_handshake.
LoopTest(t) ==
    /\ t \in OpThreads /\ pc[t] = "loop" /\ ~freed
    /\ UNCHANGED <<aliveAndKicking, waitingThreads, fdsEmergency, mutex, freed,
                   fdClosed, sockBlocking>>
    /\ CASE op[t] = "read" ->
              /\ UNCHANGED initFinished
              /\ IF aliveAndKicking # 0
                 THEN /\ Step(t, "lock", E0, sslError[t], 0, 0, FALSE)
                      /\ callUnchanged
                 ELSE Return(t, -1, "none", TRUE)
         [] op[t] = "write" ->
              /\ UNCHANGED initFinished
              /\ IF aliveAndKicking # 0 /\ len[t] > 0
                 THEN /\ Step(t, "lock", E0, sslError[t], 0, 0, FALSE)
                      /\ callUnchanged
                 ELSE Return(t, count[t], "none", aliveAndKicking = 0 /\ len[t] > 0)
         [] op[t] = "handshake" ->
              IF aliveAndKicking # 0
              THEN IF fdClosed
                   THEN /\ Return(t, 0, "SocketException", FALSE)
                        /\ initFinished' = FALSE
                   ELSE /\ Step(t, "ssl", E0, sslError[t], result[t], 0, FALSE)
                        /\ callUnchanged /\ UNCHANGED initFinished
              ELSE /\ Return(t, 0, HandshakeTail(result[t], sslError[t], errno[t]), TRUE)
                   /\ initFinished' = FALSE
    /\ UNCHANGED unitVars

\* LockAndCheck without the wait for the mutex: the driver goes on to its
\* engine step whoever holds the lock.
LockAndCheckNoWait(t) ==
    /\ t \in OpThreads /\ pc[t] = "lock" /\ ~freed
    /\ UNCHANGED <<aliveAndKicking, waitingThreads, fdsEmergency, freed, fdClosed,
                   sockBlocking, initFinished>>
    /\ IF ~initFinished
       THEN /\ Return(t, THROW_SSLEXCEPTION, "none", FALSE) /\ UNCHANGED mutex
       ELSE IF fdClosed
       THEN /\ Return(t, THROWN_EXCEPTION, "SocketException", FALSE) /\ UNCHANGED mutex
       ELSE /\ Goto(t, "ssl")
            /\ mutex' = t
            /\ callUnchanged
    /\ UNCHANGED unitVars

\* LockAndCheck whose early returns leave the mutex locked (a plain
\* pthread_mutex_lock in the place of UniqueMutex).
LockAndCheckKeepsLock(t) ==
    /\ t \in OpThreads /\ pc[t] = "lock" /\ ~freed
    /\ mutex = "free"
    /\ UNCHANGED <<aliveAndKicking, waitingThreads, fdsEmergency, freed, fdClosed,
                   sockBlocking, initFinished>>
    /\ mutex' = t
    /\ IF ~initFinished
       THEN Return(t, THROW_SSLEXCEPTION, "none", FALSE)
       ELSE IF fdClosed
       THEN Return(t, THROWN_EXCEPTION, "SocketException", FALSE)
       ELSE /\ Goto(t, "ssl")
            /\ callUnchanged
    /\ UNCHANGED unitVars

\* LockAndCheck without the "!SSL_is_init_finished(ssl) && ..." test: the
\* driver goes on to SSL_read / SSL_write in any state of the handshake.
LockAndCheckNoInitTest(t) ==
    /\ t \in OpThreads /\ pc[t] = "lock" /\ ~freed
    /\ mutex = "free"
    /\ UNCHANGED <<aliveAndKicking, waitingThreads, fdsEmergency, freed, fdClosed,
                   sockBlocking, initFinished>>
    /\ IF fdClosed
       THEN /\ Return(t, THROWN_EXCEPTION, "SocketException", FALSE) /\ UNCHANGED mutex
       ELSE /\ Goto(t, "ssl")
            /\ mutex' = t
            /\ callUnchanged
    /\ UNCHANGED unitVars

\* sslRead / sslWrite: UniqueMutex appDataLock, the init-finished test and
\* setCallbackState; the thread is then inside SSL_read / SSL_write.
LockAndCheck(t) ==
    /\ t \in OpThreads /\ pc[t] = "lock" /\ ~freed
    /\ mutex = "free"
    /\ UNCHANGED <<aliveAndKicking, waitingThreads, fdsEmergency, freed, fdClosed,
                   sockBlocking, initFinished>>
    /\ IF ~initFinished
       THEN /\ Return(t, THROW_SSLEXCEPTION, "none", FALSE) /\ UNCHANGED mutex
       ELSE IF fdClosed
       THEN /\ Return(t, THROWN_EXCEPTION, "SocketException", FALSE) /\ UNCHANGED mutex
       ELSE /\ Goto(t, "ssl")
            /\ mutex' = t
            /\ callUnchanged
    /\ UNCHANGED unitVars

\* What one SSL_read / SSL_write call can report: the engine's return value,
\* the SSL_get_error class of it, and errno.  A blocking socket never makes
\* the engine report WANT_READ / WANT_WRITE.
IoOutcomes(t) ==
    {[res |-> n, se |-> "NONE", e |-> E0] : n \in 1 .. len[t]}
    \cup {[res |-> 0, se |-> "ZERO_RETURN", e |-> E0],
          [res |-> 0, se |-> "SYSCALL", e |-> E0],
          [res |-> -1, se |-> "SYSCALL", e |-> EINTR],
          [res |-> -1, se |-> "SYSCALL", e |-> EOTHER],
          [res |-> -1, se |-> "SSL", e |-> E0]}
    \cup (IF sockBlocking THEN {}
          ELSE {[res |-> -1, se |-> "WANT_READ", e |-> EAGAIN],
                [res |-> -1, se |-> "WANT_WRITE", e |-> EAGAIN]})

\* The wake-up test after the engine step: the BIO byte counters moved and
\* another thread is counted as waiting.
WakeOnProgress(mv) == mv /\ waitingThreads > 0

\* sslNotify called by driver t on progress: the ghost record of the threads
\* it is called for, those registered as waiters whose poll has not returned.
WakeOthers(t) ==
    [a \in OpThreads |->
        IF a # t /\ wakeFor[a] = "none" /\ pc[a] \in {"select", "poll"}
        THEN pc[a] ELSE wakeFor[a]]

\* IoSwitch whose SSL_ERROR_NONE case of the write advances the buffer but
\* leaves len as it was.
IoSwitchKeepsLength(t, o) ==
    CASE o.se = "NONE" /\ op[t] = "read" ->
           ReturnCode(t, o.res, "none", FALSE, o.se, 0)
      [] o.se = "NONE" /\ op[t] = "write" ->
           /\ Step(t, "loop", o.e, o.se, 0, 0, FALSE)
           /\ len' = len
           /\ written' = [written EXCEPT ![t] = written[t] + o.res]
           /\ returned' = NoReturn
           /\ UNCHANGED <<op, count, timeout>>
      [] o.se = "ZERO_RETURN" ->
           ReturnCode(t, -1, "none", FALSE, o.se, written[t])
      [] IsWant(o.se) ->
           /\ Step(t, "select", o.e, o.se, o.res, 0, FALSE)
           /\ callKeeps
      [] o.se = "SYSCALL" /\ o.res = 0 ->
           ReturnCode(t, -1, "none", FALSE, o.se, written[t])
      [] o.se = "SYSCALL" /\ o.res # 0 /\ o.e = EINTR ->
           /\ Step(t, "loop", o.e, o.se, 0, 0, FALSE)
           /\ callKeeps
      [] OTHER ->
           ReturnCode(t, THROW_SSLEXCEPTION, "none", FALSE, o.se, written[t])

\* IoSwitch without the "if (errno == EINTR) break;" of the SSL_ERROR_SYSCALL
\* case: an interrupted system call is an error like any other.
IoSwitchNoRetry(t, o) ==
    CASE o.se = "NONE" /\ op[t] = "read" ->
           ReturnCode(t, o.res, "none", FALSE, o.se, 0)
      [] o.se = "NONE" /\ op[t] = "write" ->
           /\ Step(t, "loop", o.e, o.se, 0, 0, FALSE)
           /\ len' = [len EXCEPT ![t] = len[t] - o.res]
           /\ written' = [written EXCEPT ![t] = written[t] + o.res]
           /\ returned' = NoReturn
           /\ UNCHANGED <<op, count, timeout>>
      [] o.se = "ZERO_RETURN" ->
           ReturnCode(t, -1, "none", FALSE, o.se, written[t])
      [] IsWant(o.se) ->
           /\ Step(t, "select", o.e, o.se, o.res, 0, FALSE)
           /\ callKeeps
      [] o.se = "SYSCALL" /\ o.res = 0 ->
           ReturnCode(t, -1, "none", FALSE, o.se, written[t])
      [] OTHER ->
           ReturnCode(t, THROW_SSLEXCEPTION, "none", FALSE, o.se, written[t])

\* IoSwitch whose SSL_ERROR_NONE case of the read goes round the loop again
\* instead of returning result.
IoSwitchReadLoops(t, o) ==
    CASE o.se = "NONE" /\ op[t] = "read" ->
           /\ Step(t, "loop", o.e, o.se, 0, 0, FALSE)
           /\ callKeeps
      [] o.se = "NONE" /\ op[t] = "write" ->
           /\ Step(t, "loop", o.e, o.se, 0, 0, FALSE)
           /\ len' = [len EXCEPT ![t] = len[t] - o.res]
           /\ written' = [written EXCEPT ![t] = written[t] + o.res]
           /\ returned' = NoReturn
           /\ UNCHANGED <<op, count, timeout>>
      [] o.se = "ZERO_RETURN" ->
           ReturnCode(t, -1, "none", FALSE, o.se, written[t])
      [] IsWant(o.se) ->
           /\ Step(t, "select", o.e, o.se, o.res, 0, FALSE)
           /\ callKeeps
      [] o.se = "SYSCALL" /\ o.res = 0 ->
           ReturnCode(t, -1, "none", FALSE, o.se, written[t])
      [] o.se = "SYSCALL" /\ o.res # 0 /\ o.e = EINTR ->
           /\ Step(t, "loop", o.e, o.se, 0, 0, FALSE)
           /\ callKeeps
      [] OTHER ->
           ReturnCode(t, THROW_SSLEXCEPTION, "none", FALSE, o.se, written[t])

\* The switch on sslError after the unlock, for an engine step that reported
\* o: the return, the next loop iteration, or the call of sslSelect
\* (registered as a waiter, not yet polling).
IoSwitch(t, o) ==
    CASE o.se = "NONE" /\ op[t] = "read" ->
           ReturnCode(t, o.res, "none", FALSE, o.se, 0)
      [] o.se = "NONE" /\ op[t] = "write" ->
           /\ Step(t, "loop", o.e, o.se, 0, 0, FALSE)
           /\ len' = [len EXCEPT ![t] = len[t] - o.res]
           /\ written' = [written EXCEPT ![t] = written[t] + o.res]
           /\ returned' = NoReturn
           /\ UNCHANGED <<op, count, timeout>>
      [] o.se = "ZERO_RETURN" ->
           ReturnCode(t, -1, "none", FALSE, o.se, written[t])
      [] IsWant(o.se) ->
           /\ Step(t, "select", o.e, o.se, o.res, 0, FALSE)
           /\ callKeeps
      [] o.se = "SYSCALL" /\ o.res = 0 ->
           ReturnCode(t, -1, "none", FALSE, o.se, written[t])
      [] o.se = "SYSCALL" /\ o.res # 0 /\ o.e = EINTR ->
           /\ Step(t, "loop", o.e, o.se, 0, 0, FALSE)
           /\ callKeeps
      [] OTHER ->
           ReturnCode(t, THROW_SSLEXCEPTION, "none", FALSE, o.se, written[t])

\* SSL_read / SSL_write returns, and the code that follows it under the
\* mutex: a Java exception thrown by a callback ends the call (safeSslClear,
\* THROWN_EXCEPTION); otherwise sslError.reset, the wake-up of another
\* blocked thread (sslNotify, which cannot complete on a full pipe), the
\* registration as a waiter, the unlock and the switch.
IoStepReturn(t) ==
    /\ t \in OpThreads /\ pc[t] = "ssl" /\ op[t] \in {"read", "write"} /\ ~freed
    /\ UNCHANGED <<aliveAndKicking, freed, fdClosed, sockBlocking>>
    /\ mutex' = "free"
    /\ \/ /\ ReturnCode(t, THROWN_EXCEPTION, "RuntimeException", FALSE, sslError[t],
                        written[t])
          /\ initFinished' = FALSE
          /\ UNCHANGED <<waitingThreads, fdsEmergency, wakeFor>>
       \/ \E o \in IoOutcomes(t), mv \in BOOLEAN :
            /\ WakeOnProgress(mv) => sslNotifyCanWrite
            /\ fdsEmergency' = IF WakeOnProgress(mv) THEN sslNotify(fdsEmergency)
                               ELSE fdsEmergency
            /\ waitingThreads' = IF IsWant(o.se) THEN waitingThreads + 1
                                 ELSE waitingThreads
            /\ wakeFor' = IF WakeOnProgress(mv) THEN WakeOthers(t) ELSE wakeFor
            /\ IoSwitch(t, o)
            /\ UNCHANGED initFinished
    /\ UNCHANGED unitVars


\* What one SSL_do_handshake call can report.
HandshakeOutcomes ==
    {[res |-> 1, se |-> "NONE", e |-> E0],
     [res |-> 0, se |-> "ZERO_RETURN", e |-> E0],
     [res |-> 0, se |-> "SYSCALL", e |-> E0],
     [res |-> 0, se |-> "SSL", e |-> E0],
     [res |-> -1, se |-> "SYSCALL", e |-> EINTR],
     [res |-> -1, se |-> "SYSCALL", e |-> EOTHER],
     [res |-> -1, se |-> "SSL", e |-> E0]}
    \cup (IF sockBlocking THEN {}
          ELSE {[res |-> -1, se |-> "WANT_READ", e |-> EAGAIN],
                [res |-> -1, se |-> "WANT_WRITE", e |-> EAGAIN]})

\* SSL_do_handshake returns (no mutex is held): callback exception, success,
\* the errno == EINTR retry, sslError.reset and the branch on it.
HandshakeStepReturn(t) ==
    /\ t \in OpThreads /\ pc[t] = "ssl" /\ op[t] = "handshake" /\ ~freed
    /\ UNCHANGED <<aliveAndKicking, waitingThreads, fdsEmergency, mutex, freed,
                   fdClosed, sockBlocking>>
    /\ \/ /\ Return(t, 0, "RuntimeException", FALSE)
          /\ initFinished' = FALSE
       \/ \E o \in HandshakeOutcomes :
            IF o.res = 1
            THEN /\ Return(t, 1, "none", FALSE)
                 /\ initFinished' = TRUE
            ELSE IF o.e = EINTR
            THEN /\ Step(t, "loop", o.e, sslError[t], o.res, 0, FALSE)
                 /\ callUnchanged /\ UNCHANGED initFinished
            ELSE IF IsWant(o.se)
            THEN /\ Step(t, "hs_inc", o.e, o.se, o.res, 0, FALSE)
                 /\ callUnchanged /\ UNCHANGED initFinished
            ELSE /\ ReturnWith(t, 0, HandshakeTail(o.res, o.se, o.e), FALSE, o.se, 0)
                 /\ initFinished' = FALSE
    /\ UNCHANGED unitVars

\* "appData->waitingThreads++" of the handshake, done without the mutex.
HandshakeRegister(t) ==
    /\ t \in OpThreads /\ pc[t] = "hs_inc" /\ ~freed
    /\ Goto(t, "select")
    /\ waitingThreads' = waitingThreads + 1
    /\ callUnchanged
    /\ UNCHANGED <<aliveAndKicking, fdsEmergency, mutex, freed, fdClosed, sockBlocking,
                   initFinished>>
    /\ UNCHANGED unitVars

\* ---------------------------------------------------------------- sslSelect
selUnchanged == <<aliveAndKicking, freed, fdClosed, sockBlocking>>
pollUnchanged ==
    /\ callKeeps
    /\ UNCHANGED <<selUnchanged, waitingThreads, fdsEmergency, mutex, initFinished>>
\* t's poll has returned (or is not made): no wake-up is pending for it.
PollOver(t) == wakeFor' = [wakeFor EXCEPT ![t] = "none"]

\* Top of sslSelect's do-loop: the closed check, then the thread enters poll.
SelectEnter(t) ==
    /\ t \in OpThreads /\ pc[t] = "select" /\ ~freed
    /\ IF fdClosed
       THEN /\ Step(t, "sel_lock", errno[t], sslError[t], result[t], THROWN_EXCEPTION,
                    FALSE)
            /\ PollOver(t)
       ELSE /\ Step(t, "poll", errno[t], sslError[t], result[t], 0, FALSE)
            /\ UNCHANGED wakeFor
    /\ pollUnchanged
    /\ UNCHANGED unitVars

\* What a successful poll reports for a socket that is ready or not (sock)
\* and a pipe holding p bytes: the count of ready descriptors and
\* fds[1].revents & POLLIN.
PollResult(sock, p) ==
    [n |-> (IF sock THEN 1 ELSE 0) + (IF p > 0 THEN 1 ELSE 0), pipe |-> p > 0]

\* poll returns a positive count: the socket is ready (the environment's
\* choice), the emergency pipe holds a byte, or both.
PollReady(t) ==
    /\ t \in OpThreads /\ pc[t] = "poll" /\ ~freed
    /\ \E sock \in BOOLEAN :
         /\ PollResult(sock, fdsEmergency).n > 0
         /\ Step(t, "sel_lock", errno[t], sslError[t], result[t],
                 PollResult(sock, fdsEmergency).n, PollResult(sock, fdsEmergency).pipe)
    /\ PollOver(t)
    /\ pollUnchanged
    /\ UNCHANGED unitVars

\* poll returns 0: its timeout ran out (never with -1, wait forever) and no
\* descriptor is ready (the pipe is empty; the socket is the environment's).
PollTimeout(t) ==
    /\ t \in OpThreads /\ pc[t] = "poll" /\ ~freed
    /\ timeout[t] >= 0
    /\ PollResult(FALSE, fdsEmergency).n = 0
    /\ Step(t, "sel_lock", errno[t], sslError[t], result[t], 0, FALSE)
    /\ PollOver(t)
    /\ pollUnchanged
    /\ UNCHANGED unitVars

\* PollFail that leaves the do-loop on every errno, EINTR too.
PollFailNoRetry(t) ==
    /\ t \in OpThreads /\ pc[t] = "poll" /\ ~freed
    /\ \E e \in {EINTR, EOTHER} :
         IF fdClosed
         THEN Step(t, "sel_lock", e, sslError[t], result[t], THROWN_EXCEPTION, FALSE)
         ELSE Step(t, "sel_lock", e, sslError[t], result[t], -1, FALSE)
    /\ wakeFor' = [wakeFor EXCEPT ![t] = "none"]
    /\ pollUnchanged
    /\ UNCHANGED unitVars

\* poll returns -1: closed descriptor -> THROWN_EXCEPTION; errno != EINTR ->
\* -1; EINTR -> the do-loop runs again.
PollFail(t) ==
    /\ t \in OpThreads /\ pc[t] = "poll" /\ ~freed
    /\ \E e \in {EINTR, EOTHER} :
         IF fdClosed
         THEN Step(t, "sel_lock", e, sslError[t], result[t], THROWN_EXCEPTION, FALSE)
         ELSE IF e # EINTR
         THEN Step(t, "sel_lock", e, sslError[t], result[t], -1, FALSE)
         ELSE Step(t, "select", e, sslError[t], result[t], 0, FALSE)
    /\ wakeFor' = [wakeFor EXCEPT ![t] = IF pc'[t] = "select" THEN @ ELSE "none"]
    /\ pollUnchanged
    /\ UNCHANGED unitVars

\* SelectFinish whose caller takes a failed poll (-1) for a wake-up and goes
\* to its next loop test.
SelectFinishRetriesOnError(t) ==
    /\ t \in OpThreads /\ pc[t] = "sel_lock" /\ ~freed
    /\ mutex = "free"
    /\ LET drain == selRes[t] > 0 /\ revPipe[t]
           d == DrainToken(fdsEmergency, errno[t])
           e == IF drain THEN d.errno ELSE errno[t]
           hs == op[t] = "handshake"
       IN /\ fdsEmergency' = IF drain THEN d.pipe ELSE fdsEmergency
          /\ waitingThreads' = waitingThreads - 1
          /\ UNCHANGED <<selUnchanged, mutex>>
          /\ CASE selRes[t] = THROWN_EXCEPTION ->
                    /\ IF hs THEN Return(t, 0, "SocketException", FALSE)
                             ELSE Return(t, THROWN_EXCEPTION, "SocketException", FALSE)
                    /\ initFinished' = IF hs THEN FALSE ELSE initFinished
               [] selRes[t] = 0 ->
                    /\ IF hs THEN Return(t, 0, "SocketTimeoutException", FALSE)
                             ELSE Return(t, THROW_SOCKETTIMEOUTEXCEPTION, "none", FALSE)
                    /\ initFinished' = IF hs THEN FALSE ELSE initFinished
               [] OTHER ->
                    /\ Step(t, "loop", e, sslError[t], result[t], 0, FALSE)
                    /\ callUnchanged /\ UNCHANGED initFinished
    /\ UNCHANGED unitVars

\* SelectFinish that leaves sslSelect without the decrement when the
\* descriptor was found closed.
SelectFinishLeak(t) ==
    /\ t \in OpThreads /\ pc[t] = "sel_lock" /\ ~freed
    /\ mutex = "free"
    /\ LET drain == selRes[t] > 0 /\ revPipe[t]
           d == DrainToken(fdsEmergency, errno[t])
           e == IF drain THEN d.errno ELSE errno[t]
           hs == op[t] = "handshake"
       IN /\ fdsEmergency' = IF drain THEN d.pipe ELSE fdsEmergency
          /\ waitingThreads' = IF selRes[t] = THROWN_EXCEPTION THEN waitingThreads
                               ELSE waitingThreads - 1
          /\ UNCHANGED <<selUnchanged, mutex>>
          /\ CASE selRes[t] = THROWN_EXCEPTION ->
                    /\ IF hs THEN Return(t, 0, "SocketException", FALSE)
                             ELSE Return(t, THROWN_EXCEPTION, "SocketException", FALSE)
                    /\ initFinished' = IF hs THEN FALSE ELSE initFinished
               [] selRes[t] = -1 ->
                    /\ IF hs THEN Return(t, 0, "SSLHandshakeException:error", FALSE)
                             ELSE Return(t, THROW_SSLEXCEPTION, "none", FALSE)
                    /\ initFinished' = IF hs THEN FALSE ELSE initFinished
               [] selRes[t] = 0 ->
                    /\ IF hs THEN Return(t, 0, "SocketTimeoutException", FALSE)
                             ELSE Return(t, THROW_SOCKETTIMEOUTEXCEPTION, "none", FALSE)
                    /\ initFinished' = IF hs THEN FALSE ELSE initFinished
               [] OTHER ->
                    /\ Step(t, "loop", e, sslError[t], result[t], 0, FALSE)
                    /\ callUnchanged /\ UNCHANGED initFinished
    /\ UNCHANGED unitVars

\* The rest of sslSelect under the mutex (token read, waitingThreads--), its
\* return, and the caller's branch on selectResult.
SelectFinish(t) ==
    /\ t \in OpThreads /\ pc[t] = "sel_lock" /\ ~freed
    /\ mutex = "free"
    /\ LET drain == selRes[t] > 0 /\ revPipe[t]
           d == DrainToken(fdsEmergency, errno[t])
           e == IF drain THEN d.errno ELSE errno[t]
           hs == op[t] = "handshake"
       IN /\ fdsEmergency' = IF drain THEN d.pipe ELSE fdsEmergency
          /\ waitingThreads' = waitingThreads - 1
          /\ UNCHANGED <<selUnchanged, mutex>>
          /\ CASE selRes[t] = THROWN_EXCEPTION ->
                    /\ IF hs THEN Return(t, 0, "SocketException", FALSE)
                             ELSE Return(t, THROWN_EXCEPTION, "SocketException", FALSE)
                    /\ initFinished' = IF hs THEN FALSE ELSE initFinished
               [] selRes[t] = -1 ->
                    /\ IF hs THEN Return(t, 0, "SSLHandshakeException:error", FALSE)
                             ELSE Return(t, THROW_SSLEXCEPTION, "none", FALSE)
                    /\ initFinished' = IF hs THEN FALSE ELSE initFinished
               [] selRes[t] = 0 ->
                    /\ IF hs THEN Return(t, 0, "SocketTimeoutException", FALSE)
                             ELSE Return(t, THROW_SOCKETTIMEOUTEXCEPTION, "none", FALSE)
                    /\ initFinished' = IF hs THEN FALSE ELSE initFinished
               [] OTHER ->
                    /\ Step(t, "loop", e, sslError[t], result[t], 0, FALSE)
                    /\ callUnchanged /\ UNCHANGED initFinished
    /\ UNCHANGED unitVars

\* ------------------------------------------------ NativeCrypto_SSL_interrupt
opLocals == <<count, len, timeout, sslError, result, selRes, revPipe,
              written>>

\* The return of a call of thread t that is not a read / write / handshake.
CallerReturn(t, o, x) ==
    returned' = [t |-> t, op |-> o, ret |-> 0, exc |-> x, se |-> "NONE",
                 dead |-> FALSE, count |-> 0, written |-> 0]

\* InterruptKill that goes on to the sslNotify calls without the store to
\* aliveAndKicking.
InterruptKillLate(t) ==
    /\ t \in Callers /\ pc[t] = "idle" /\ ~freed
    /\ pc' = [pc EXCEPT ![t] = "notify1"]
    /\ UNCHANGED <<aliveAndKicking, op, waitingThreads, fdsEmergency, mutex, freed,
                   fdClosed, sockBlocking, initFinished, errno, opLocals, wakeFor>>
    /\ returned' = NoReturn
    /\ UNCHANGED unitVars

\* InterruptKill with a flag that a second interrupt raises again.
InterruptToggle(t) ==
    /\ t \in Callers /\ pc[t] = "idle" /\ ~freed
    /\ aliveAndKicking' = 1 - aliveAndKicking
    /\ pc' = [pc EXCEPT ![t] = "notify1"]
    /\ UNCHANGED <<op, waitingThreads, fdsEmergency, mutex, freed, fdClosed, sockBlocking,
                   initFinished, errno, opLocals, wakeFor>>
    /\ returned' = NoReturn
    /\ UNCHANGED unitVars

\* "appData->aliveAndKicking = 0;"
InterruptKill(t) ==
    /\ t \in Callers /\ pc[t] = "idle" /\ ~freed
    /\ aliveAndKicking' = 0
    /\ pc' = [pc EXCEPT ![t] = "notify1"]
    /\ UNCHANGED <<op, waitingThreads, fdsEmergency, mutex, freed, fdClosed, sockBlocking,
                   initFinished, errno, opLocals, wakeFor>>
    /\ returned' = NoReturn
    /\ UNCHANGED unitVars

\* The two sslNotify calls, one action each; the call returns after the second.
InterruptNotify(t) ==
    /\ t \in Callers /\ pc[t] \in {"notify1", "notify2"} /\ ~freed
    /\ sslNotifyCanWrite
    /\ fdsEmergency' = sslNotify(fdsEmergency)
    /\ IF pc[t] = "notify1"
       THEN /\ pc' = [pc EXCEPT ![t] = "notify2"]
            /\ returned' = NoReturn
       ELSE /\ pc' = [pc EXCEPT ![t] = "idle"]
            /\ CallerReturn(t, "interrupt", "none")
    /\ UNCHANGED <<aliveAndKicking, waitingThreads, mutex, freed, fdClosed, sockBlocking,
                   initFinished, op, errno, opLocals, wakeFor>>
    /\ UNCHANGED unitVars

\* ------------------------------------------------- NativeCrypto_SSL_shutdown
\* Up to the engine call: setCallbackState's closed check, then
\* setBlocking(fd, true), whose failure is ignored.
ShutdownEnter(t) ==
    /\ t = "c" /\ pc[t] = "idle" /\ ~freed
    /\ IF fdClosed
       THEN /\ CallerReturn(t, "shutdown", "SocketException")
            /\ initFinished' = FALSE
            /\ UNCHANGED <<pc, sockBlocking>>
       ELSE /\ pc' = [pc EXCEPT ![t] = "shutdown_ssl"]
            /\ \E fcntlOk \in BOOLEAN :
                 sockBlocking' = IF fcntlOk THEN TRUE ELSE sockBlocking
            /\ returned' = NoReturn
            /\ UNCHANGED initFinished
    /\ UNCHANGED <<aliveAndKicking, waitingThreads, fdsEmergency, mutex, freed, fdClosed,
                   op, errno, opLocals, wakeFor>>
    /\ UNCHANGED unitVars

\* ShutdownException that takes "not yet complete" (0) for a failure.
ShutdownExceptionOnIncomplete(r, thrown) ==
    IF thrown THEN "RuntimeException"
    ELSE IF r = 1 THEN "none"
    ELSE "SSLException"

\* The exception NativeCrypto_SSL_shutdown leaves pending after SSL_shutdown
\* returned r: the one a callback threw (ExceptionCheck), else the switch on
\* ret: 0 (shutdown not yet complete) and 1 (complete) throw nothing, any
\* other value throws "SSL shutdown failed".
ShutdownException(r, thrown) ==
    IF thrown THEN "RuntimeException"
    ELSE IF r \in {0, 1} THEN "none"
    ELSE "SSLException"

\* SSL_shutdown returns r, with or without an exception thrown by a callback;
\* then safeSslClear.  The method is void: returned.ret records r.
ShutdownReturn(t) ==
    /\ t = "c" /\ pc[t] = "shutdown_ssl" /\ ~freed
    /\ pc' = [pc EXCEPT ![t] = "idle"]
    /\ \E r \in {-1, 0, 1}, thrown \in BOOLEAN :
         returned' = [t |-> t, op |-> "shutdown", ret |-> r,
                      exc |-> ShutdownException(r, thrown), se |-> "NONE",
                      dead |-> FALSE, count |-> 0, written |-> 0]
    /\ initFinished' = FALSE
    /\ UNCHANGED <<aliveAndKicking, waitingThreads, fdsEmergency, mutex, freed, fdClosed,
                   sockBlocking, op, errno, opLocals, wakeFor>>
    /\ UNCHANGED unitVars

\* ------------------------------------------------------------- environment
\* The Java side closes the socket's FileDescriptor.
CloseFd ==
    /\ ~fdClosed
    /\ fdClosed' = TRUE
    /\ UNCHANGED <<aliveAndKicking, waitingThreads, fdsEmergency, mutex, freed,
                   sockBlocking, initFinished, pc, op, errno, opLocals, wakeFor>>
    /\ returned' = NoReturn
    /\ UNCHANGED unitVars

\* --------------------------------------------------- NativeCrypto_SSL_free
\* "delete appData" (~AppData: aliveAndKicking = 0, both pipe descriptors
\* closed, the mutex destroyed) and SSL_free, whatever the other threads do.
NativeCrypto_SSL_free(t) ==
    /\ t = "c" /\ pc[t] = "idle" /\ ~freed
    /\ freed' = TRUE
    /\ aliveAndKicking' = 0
    /\ fdsEmergency' = 0
    /\ CallerReturn(t, "free", "none")
    /\ UNCHANGED <<waitingThreads, mutex, fdClosed, sockBlocking, initFinished, pc, op,
                   errno, opLocals, wakeFor>>
    /\ UNCHANGED unitVars

\* The next access of a driver to an AppData that has been deleted: undefined
\* behaviour.  The thread faults, or it runs on with what it finds in the
\* freed memory and its call ends with one of the driver's return codes.
UseAfterFree(t) ==
    /\ t \in OpThreads /\ InFlight(t) /\ pc[t] # "fault" /\ freed
    /\ UNCHANGED shared
    /\ \/ /\ Goto(t, "fault")
          /\ callUnchanged
       \/ \E code \in {-1, THROW_SSLEXCEPTION, THROW_SOCKETTIMEOUTEXCEPTION,
                       THROWN_EXCEPTION} :
            Return(t, code, IF code = THROWN_EXCEPTION THEN "SocketException" ELSE "none",
                   FALSE)
    /\ UNCHANGED unitVars

\* ---------------------------------------------------------- specifications
OpNext(t) ==
    \/ NativeCrypto_SSL_read(t)
    \/ NativeCrypto_SSL_write(t)
    \/ NativeCrypto_SSL_do_handshake(t)
    \/ LoopTest(t)
    \/ LockAndCheck(t)
    \/ IoStepReturn(t)
    \/ HandshakeStepReturn(t)
    \/ HandshakeRegister(t)
    \/ SelectEnter(t)
    \/ PollReady(t)
    \/ PollTimeout(t)
    \/ PollFail(t)
    \/ SelectFinish(t)

\* A connection in use: handshake, reads, writes and interrupts.
Next ==
    \/ \E t \in OpThreads : OpNext(t)
    \/ \E t \in Callers : InterruptKill(t) \/ InterruptNotify(t)

Spec == Init /\ [][Next]_vars

\* A connection that is closed down: shutdown and the close of the socket's
\* FileDescriptor next to the handshake and the reads of thread "r".
ReaderNext ==
    \/ NativeCrypto_SSL_read("r")
    \/ NativeCrypto_SSL_do_handshake("r")
    \/ LoopTest("r")
    \/ LockAndCheck("r")
    \/ IoStepReturn("r")
    \/ HandshakeStepReturn("r")
    \/ HandshakeRegister("r")
    \/ SelectEnter("r")
    \/ PollReady("r")
    \/ PollTimeout("r")
    \/ PollFail("r")
    \/ SelectFinish("r")

NextClose ==
    \/ ReaderNext
    \/ ShutdownEnter("c")
    \/ ShutdownReturn("c")
    \/ CloseFd

SpecClose == Init /\ [][NextClose]_vars

\* A connection whose FileDescriptor is closed under its running handshake,
\* reads and writes.
NextIo ==
    \/ \E t \in OpThreads : OpNext(t)
    \/ CloseFd

SpecIo == Init /\ [][NextIo]_vars

\* A connection that is freed at any moment.
NextFree ==
    \/ \E t \in OpThreads : OpNext(t) \/ UseAfterFree(t)
    \/ NativeCrypto_SSL_free("c")

SpecFree == Init /\ [][NextFree]_vars

\* ------------------------------------------------------- AppData::create
\* pipe(2): the two lowest descriptor numbers that are closed.
FreeFds(tab) == {d \in Fds : tab[d] = "closed"}
LowestFree(tab) == CHOOSE d \in FreeFds(tab) : \A e \in FreeFds(tab) : d <= e
SecondFree(tab) ==
    CHOOSE d \in FreeFds(tab) \ {LowestFree(tab)} :
        \A e \in FreeFds(tab) \ {LowestFree(tab)} : d <= e

\* AppData::AppData: the object after "new AppData()".
AppDataCtor ==
    [alloc |-> TRUE, aliveAndKicking |-> 1, waitingThreads |-> 0,
     fdsEmergency |-> <<-1, -1>>, mutexSetup |-> FALSE]

\* AppData::~AppData: close(2) of each end that is not -1; the object is gone.
\* (MUTEX_CLEANUP follows the two closes; on a mutex that was never set up
\* its effect is undefined, but it has no descriptor to act on.)
AppDataDtor(app, tab) ==
    [d \in Fds |-> IF d = app.fdsEmergency[1] \/ d = app.fdsEmergency[2]
                   THEN "closed" ELSE tab[d]]

\* AppData::create with a plain pointer in the place of std::unique_ptr: the
\* early returns do not run the destructor.
AppDataCreateNoCleanup(tab, pipeOk, fcntlOk, mutexOk) ==
    IF ~pipeOk \/ Cardinality(FreeFds(tab)) < 2
    THEN [ret |-> "nullptr", app |-> NoAppData, tab |-> tab]
    ELSE LET rd == LowestFree(tab)
             wr == SecondFree(tab)
             piped == [tab EXCEPT ![rd] = "blocking", ![wr] = "blocking"]
         IN  IF ~fcntlOk \/ ~mutexOk
             THEN [ret |-> "nullptr", app |-> NoAppData, tab |-> piped]
             ELSE [ret |-> "appData",
                   app |-> [AppDataCtor EXCEPT !.fdsEmergency = <<rd, wr>>,
                                               !.mutexSetup = TRUE],
                   tab |-> [piped EXCEPT ![rd] = "nonblocking"]]

\* AppData::create on the descriptor table tab: new AppData(), pipe(2),
\* setBlocking(fdsEmergency[0], false), MUTEX_SETUP; pipeOk, fcntlOk and
\* mutexOk say whether each call succeeds (pipe also fails when fewer than
\* two descriptors are free).  Every "return nullptr" destroys the object
\* held by the unique_ptr, and the destructor closes the ends that are open.
AppDataCreate(tab, pipeOk, fcntlOk, mutexOk) ==
    IF ~pipeOk \/ Cardinality(FreeFds(tab)) < 2
    THEN [ret |-> "nullptr", app |-> NoAppData, tab |-> AppDataDtor(AppDataCtor, tab)]
    ELSE LET rd == LowestFree(tab)
             wr == SecondFree(tab)
             piped == [tab EXCEPT ![rd] = "blocking", ![wr] = "blocking"]
             made == [AppDataCtor EXCEPT !.fdsEmergency = <<rd, wr>>]
         IN  IF ~fcntlOk \/ ~mutexOk
             THEN [ret |-> "nullptr", app |-> NoAppData, tab |-> AppDataDtor(made, piped)]
             ELSE [ret |-> "appData",
                   app |-> [made EXCEPT !.mutexSetup = TRUE],
                   tab |-> [piped EXCEPT ![rd] = "nonblocking"]]

\* NativeCrypto_SSL_new: AppData::create for a new SSL; nullptr is reported
\* by an SSLException ("Unable to create application data").
NativeCrypto_SSL_new ==
    /\ ~appData.alloc
    /\ \E pipeOk \in BOOLEAN, fcntlOk \in BOOLEAN, mutexOk \in BOOLEAN :
          LET c == AppDataCreate(fdTable, pipeOk, fcntlOk, mutexOk)
          IN  /\ appData' = c.app
              /\ fdTable' = c.tab
              /\ createRet' = c.ret
    /\ UNCHANGED <<connVars, notifyVars>>

\* "delete appData" of NativeCrypto_SSL_free: the destructor.
AppDataDelete ==
    /\ appData.alloc
    /\ fdTable' = AppDataDtor(appData, fdTable)
    /\ appData' = NoAppData
    /\ createRet' = "none"
    /\ UNCHANGED <<connVars, notifyVars>>

\* The rest of the process opens a file (the lowest free descriptor) ...
ProcessOpen ==
    /\ FreeFds(fdTable) # {}
    /\ fdTable' = [fdTable EXCEPT ![LowestFree(fdTable)] = "blocking"]
    /\ UNCHANGED <<appData, createRet, connVars, notifyVars>>

\* ... or closes one of its own descriptors.
ProcessClose ==
    /\ \E d \in Fds :
          /\ fdTable[d] # "closed"
          /\ d # appData.fdsEmergency[1] /\ d # appData.fdsEmergency[2]
          /\ fdTable' = [fdTable EXCEPT ![d] = "closed"]
    /\ UNCHANGED <<appData, createRet, connVars, notifyVars>>

\* The creation and the deletion of the connection's AppData in a process
\* whose other descriptors come and go.
NextCreate ==
    \/ NativeCrypto_SSL_new
    \/ AppDataDelete
    \/ ProcessOpen
    \/ ProcessClose

SpecCreate == Init /\ [][NextCreate]_vars

\* ------------------------------------------------ sslNotify, call by call
\* The thread whose sslNotify call is followed system call by system call.
NotifyCaller == "r"

\* The code before the call: a system call of the caller leaves any errno.
CallerSyscall ==
    /\ notifyPc = "idle"
    /\ \E e \in Errnos : errno' = [errno EXCEPT ![NotifyCaller] = e]
    /\ UNCHANGED <<aliveAndKicking, waitingThreads, fdsEmergency, mutex, freed, fdClosed,
                   sockBlocking, initFinished, pc, op, count, len, timeout, sslError,
                   result, selRes, revPipe, written, returned, wakeFor>>
    /\ UNCHANGED <<createVars, notifyVars>>

\* "int errnoBackup = errno;".
sslNotifyEnter ==
    /\ notifyPc = "idle"
    /\ notifyPc' = "write"
    /\ errnoBackup' = errno[NotifyCaller]
    /\ notifyEntry' = errno[NotifyCaller]
    /\ notifyWrote' = 0
    /\ UNCHANGED <<connVars, createVars>>

\* What write(fdsEmergency[1], &token, 1) can do on a pipe holding p bytes:
\* put the byte in; on a full pipe, where it blocks, be interrupted by a
\* signal; or fail with another error.
WriteOutcomes(p) ==
    {"other"} \cup (IF p < PipeCapacity THEN {"ok"} ELSE {"EINTR"})

\* sslNotifyWrite whose loop runs again after every failed write.
sslNotifyWriteRetriesAll ==
    /\ notifyPc = "write"
    /\ \E w \in WriteOutcomes(fdsEmergency) :
          /\ fdsEmergency' = IF w = "ok" THEN fdsEmergency + 1 ELSE fdsEmergency
          /\ notifyWrote' = IF w = "ok" THEN notifyWrote + 1 ELSE notifyWrote
          /\ errno' = [errno EXCEPT ![NotifyCaller] =
                          CASE w = "ok" -> E0 [] w = "EINTR" -> EINTR [] OTHER -> EOTHER]
          /\ notifyPc' = IF w # "ok" THEN "write" ELSE "restore"
    /\ UNCHANGED <<aliveAndKicking, waitingThreads, mutex, freed, fdClosed,
                   sockBlocking, initFinished, pc, op, count, len, timeout, sslError,
                   result, selRes, revPipe, written, returned, wakeFor>>
    /\ UNCHANGED <<createVars, errnoBackup, notifyEntry>>

\* One round of "do { errno = 0; write(...); } while (errno == EINTR);".
sslNotifyWrite ==
    /\ notifyPc = "write"
    /\ \E w \in WriteOutcomes(fdsEmergency) :
          /\ fdsEmergency' = IF w = "ok" THEN fdsEmergency + 1 ELSE fdsEmergency
          /\ notifyWrote' = IF w = "ok" THEN notifyWrote + 1 ELSE notifyWrote
          /\ errno' = [errno EXCEPT ![NotifyCaller] =
                          CASE w = "ok" -> E0 [] w = "EINTR" -> EINTR [] OTHER -> EOTHER]
          /\ notifyPc' = IF w = "EINTR" THEN "write" ELSE "restore"
    /\ UNCHANGED <<aliveAndKicking, waitingThreads, mutex, freed, fdClosed,
                   sockBlocking, initFinished, pc, op, count, len, timeout, sslError,
                   result, selRes, revPipe, written, returned, wakeFor>>
    /\ UNCHANGED <<createVars, errnoBackup, notifyEntry>>

\* sslNotifyRestore that leaves errno as the write left it.
sslNotifyRestoreNot ==
    /\ notifyPc = "restore"
    /\ notifyPc' = "idle"
    /\ UNCHANGED <<connVars, createVars, errnoBackup, notifyEntry, notifyWrote>>

\* "errno = errnoBackup;" and the return.
sslNotifyRestore ==
    /\ notifyPc = "restore"
    /\ notifyPc' = "idle"
    /\ errno' = [errno EXCEPT ![NotifyCaller] = errnoBackup]
    /\ UNCHANGED <<aliveAndKicking, waitingThreads, fdsEmergency, mutex, freed, fdClosed,
                   sockBlocking, initFinished, pc, op, count, len, timeout, sslError,
                   result, selRes, revPipe, written, returned, wakeFor>>
    /\ UNCHANGED <<createVars, errnoBackup, notifyEntry, notifyWrote>>

\* A waiter's read of one token from the pipe (sslSelect).
TokenRead ==
    /\ fdsEmergency > 0
    /\ fdsEmergency' = fdsEmergency - 1
    /\ UNCHANGED <<aliveAndKicking, waitingThreads, mutex, freed, fdClosed,
                   sockBlocking, initFinished, pc, op, count, len, timeout, errno,
                   sslError, result, selRes, revPipe, written, returned, wakeFor>>
    /\ UNCHANGED unitVars

\* The connection as sslNotify can find it: cancelled or not, with up to two
\* registered waiters, the pipe holding any number of bytes.
InitNotify ==
    /\ aliveAndKicking \in {0, 1}
    /\ waitingThreads \in 0 .. 2
    /\ fdsEmergency \in 0 .. PipeCapacity
    /\ mutex = "free"
    /\ freed = FALSE
    /\ fdClosed = FALSE
    /\ sockBlocking = FALSE
    /\ initFinished = TRUE
    /\ pc = [t \in Threads |-> "idle"]
    /\ op = [t \in Threads |-> "none"]
    /\ count = [t \in OpThreads |-> 0]
    /\ len = [t \in OpThreads |-> 0]
    /\ timeout = [t \in OpThreads |-> 0]
    /\ errno = [t \in Threads |-> E0]
    /\ sslError = [t \in OpThreads |-> "NONE"]
    /\ result = [t \in OpThreads |-> 0]
    /\ selRes = [t \in OpThreads |-> 0]
    /\ revPipe = [t \in OpThreads |-> FALSE]
    /\ written = [t \in OpThreads |-> 0]
    /\ returned = NoReturn
    /\ wakeFor = [t \in OpThreads |-> "none"]
    /\ fdTable = [d \in Fds |-> "closed"]
    /\ appData = NoAppData
    /\ createRet = "none"
    /\ notifyPc = "idle"
    /\ errnoBackup = E0
    /\ notifyEntry = E0
    /\ notifyWrote = 0

NextNotify ==
    \/ CallerSyscall
    \/ sslNotifyEnter
    \/ sslNotifyWrite
    \/ sslNotifyRestore
    \/ TokenRead

SpecNotify == InitNotify /\ [][NextNotify]_vars

\* ------------------------------------------------------------------ claims
\* An interrupt call has run to its end and no other is under way.
InterruptDone == aliveAndKicking = 0 /\ pc["i"] = "idle"

\* C1: a thread blocked in the poll of sslSelect is made to return by an
\* interrupt call, whatever its timeout and even if the socket never becomes
\* ready: once the interrupt call has completed and every other thread has
\* left the native code (so that no further byte will be written), a byte is
\* in the pipe for that poll to find, or the poll has a timeout to run out.
C1_PromptCancellation ==
    \A t \in OpThreads :
        (pc[t] = "poll" /\ InterruptDone /\ \A u \in OpThreads \ {t} : ~InFlight(u))
            => (fdsEmergency > 0 \/ timeout[t] >= 0)

\* The ways a call ends that are not an Interrupted failure: success or the EOF
\* sentinel (no exception), a timeout, a peer-closed or a protocol error.
NotInterrupted ==
    {"none", "SocketTimeoutException", "SSLException", "SSLHandshakeException:closed",
     "SSLHandshakeException:terminated", "SSLHandshakeException:aborted",
     "SSLHandshakeException:error"}

\* C2: a read, write or handshake that ends because its loop test found
\* aliveAndKicking == 0 ends with an Interrupted failure: not with success, the
\* EOF sentinel, a timeout, a peer-closed or a protocol error.
C2_EndsInterrupted == returned.dead => returned.exc \notin NotInterrupted

\* C3: a byte written by sslNotify for a thread that is registered as a waiter
\* and has not entered poll yet stays in the pipe until that thread's poll has
\* returned.
C3_NoLostWakeup == \A a \in OpThreads : wakeFor[a] = "select" => fdsEmergency > 0

\* C4: when an interrupt call has completed while a driver was between its
\* test of aliveAndKicking and its poll, a byte is in the pipe for that
\* driver's poll to find.
C4_CancelReachesRegisteredWaiter ==
    \A t \in OpThreads : (pc[t] = "select" /\ InterruptDone) => fdsEmergency > 0

\* C5: a write of L > 0 bytes that returns without an exception has had
\* SSL_write steps confirm exactly L bytes in total.
C5_WriteSuccessIsComplete ==
    (returned.op = "write" /\ returned.count > 0 /\ returned.exc = "none")
        => returned.written = returned.count

\* C6: a read returns -1 without an exception exactly when its SSL_read step
\* reported clean end-of-stream (SSL_ERROR_ZERO_RETURN).
C6_EofOnlyOnEndOfStream ==
    (returned.op = "read" /\ returned.count > 0)
        => ((returned.ret = -1 /\ returned.exc = "none") <=> returned.se = "ZERO_RETURN")

\* C7: an interrupt call is never held up in the pipe write of sslNotify.
C7_InterruptNeverBlocks ==
    \A t \in Callers : pc[t] \in {"notify1", "notify2"} => sslNotifyCanWrite

\* C8: a read or write of length 0 returns 0 to Java in the step that enters
\* it, with no exception, whatever the connection's state, and leaves the
\* mutex, waitingThreads, the pipe and every other shared field as they were:
\* no read or write of length 0 is ever inside the driver's loop.
C8_ZeroLengthNoOp ==
    /\ [](\A t \in OpThreads : op[t] \in {"read", "write"} => count[t] > 0)
    /\ [][\A t \in OpThreads :
            (returned'.t = t /\ returned'.op \in {"read", "write"} /\ returned'.count = 0)
                => /\ pc[t] = "idle" /\ pc'[t] = "idle"
                   /\ returned'.ret = 0 /\ returned'.exc = "none"
                   /\ UNCHANGED shared]_vars

\* A read of length 0 has just returned on a cancelled connection while the
\* writer holds the mutex inside SSL_write.
C8_Witness ==
    /\ returned.t = "r" /\ returned.op = "read" /\ returned.count = 0
    /\ aliveAndKicking = 0 /\ mutex = "w"

\* C9: when the reader has called sslNotify for the writer parked in poll, the
\* writer's poll does not end by running out its timeout.
C9_WokenNotTimedOut ==
    [][(wakeFor["w"] = "poll" /\ pc["w"] = "poll" /\ pc'["w"] = "sel_lock")
            => selRes'["w"] # 0]_vars

\* C10: the AppData is not deleted while a read, write or handshake is in
\* flight on it.
C10_NotFreedInFlight == freed => \A t \in OpThreads : ~InFlight(t)

\* In the engine's read or write (SSL_read / SSL_write), and in the code that
\* follows it up to appDataLock.unlock().
InEngineIo(t) == pc[t] = "ssl" /\ op[t] \in {"read", "write"}

\* C11: two threads are never inside SSL_read / SSL_write at the same time:
\* a driver inside its engine read or write holds the mutex, and it still
\* holds it when that step ends, the wake-on-progress test included; only
\* then is the mutex released.
C11_EngineIoUnderMutex ==
    /\ [](\A t \in OpThreads : InEngineIo(t) => mutex = t)
    /\ [](Cardinality({t \in OpThreads : InEngineIo(t)}) <= 1)
    /\ [][\A t \in OpThreads :
            InEngineIo(t) /\ pc'[t] # pc[t] => mutex = t /\ mutex' = "free"]_vars

\* The reader is inside SSL_read while the writer waits for the mutex.
C11_Witness ==
    InEngineIo("r") /\ mutex = "r" /\ pc["w"] = "lock" /\ op["w"] = "write"

\* C12: aliveAndKicking is true when the connection state is created, and
\* once it is false no step makes it true again.
C12_AliveMonotonic ==
    /\ aliveAndKicking = 1
    /\ [][aliveAndKicking = 0 => aliveAndKicking' = 0]_vars

\* A second interrupt has just stored to the flag, which was already false:
\* the two tokens of the first interrupt are still in the pipe.
C12_Witness ==
    aliveAndKicking = 0 /\ pc["i"] = "notify1" /\ fdsEmergency = PipeCapacity

\* Between the waitingThreads++ of its driver and the waitingThreads-- at the
\* end of sslSelect.
Registered(t) == pc[t] \in {"select", "poll", "sel_lock"}

\* C13: waitingThreads is the number of threads that have registered as
\* waiters and not yet finished their wait, whatever the wait ends with
\* (ready, timed out, poll error, closed descriptor); it stays within 0 .. 2
\* and is 0 when no operation is in flight.
C13_WaitingCountsWaiters ==
    /\ waitingThreads = Cardinality({t \in OpThreads : Registered(t)})
    /\ waitingThreads \in 0 .. 2
    /\ (\A t \in OpThreads : ~InFlight(t)) => waitingThreads = 0

\* Two registered waiters, one of which found the descriptor closed.
C13_Witness ==
    /\ waitingThreads = 2
    /\ pc["r"] = "sel_lock" /\ selRes["r"] = THROWN_EXCEPTION

\* C14: every increment and every decrement of waitingThreads is made by a
\* thread that holds the mutex: the driver inside its locked section, or
\* sslSelect, which takes the free mutex for its last part.
C14_CountChangesUnderMutex ==
    [][waitingThreads' # waitingThreads =>
          \E t \in OpThreads :
              /\ pc'[t] # pc[t]
              /\ \/ mutex = t
                 \/ pc[t] = "sel_lock" /\ mutex = "free"]_vars

\* C15: a call entered with a timeout that is not positive waits without a
\* time limit: none of its waits ends with poll returning 0, and the call
\* never ends with the timeout failure.
C15_NonPositiveTimeoutWaitsForever ==
    /\ [](\A t \in OpThreads :
             pc[t] = "sel_lock" /\ selRes[t] = 0 => timeout[t] > 0)
    /\ [][\A t \in OpThreads :
            returned'.t = t /\ returned'.exc = "SocketTimeoutException"
                => timeout[t] > 0]_vars

\* A wait of a call without a time limit has ended, woken through the pipe.
C15_Witness ==
    \E t \in OpThreads :
        pc[t] = "sel_lock" /\ timeout[t] = -1 /\ selRes[t] > 0 /\ revPipe[t]

\* A wait of t has ended with poll returning 0.
TimedOut(t) == pc[t] = "sel_lock" /\ selRes[t] = 0

\* C16: when a wait ends timed out, the next step of its driver is the
\* return of the call with the timeout failure, with no engine step and no
\* wait in between; and a call ends with the timeout failure only from a
\* wait that timed out.
C16_TimedOutFailsWithTimeout ==
    [][/\ \A t \in OpThreads :
            TimedOut(t) /\ pc'[t] # pc[t] =>
                /\ pc'[t] = "idle"
                /\ returned'.t = t
                /\ returned'.exc = "SocketTimeoutException"
       /\ returned'.exc = "SocketTimeoutException" =>
            \E t \in OpThreads : returned'.t = t /\ TimedOut(t)]_vars

\* A write has just ended with the timeout failure.
C16_Witness ==
    returned.op = "write" /\ returned.exc = "SocketTimeoutException"

\* C17: a write or a handshake whose engine step reports the end of the
\* stream (SSL_ERROR_ZERO_RETURN) ends with a failure, never with a normal
\* return; only a read turns the end of the stream into a return value.
C17_EndOfStreamFailsWriteAndHandshake ==
    returned.op \in {"write", "handshake"} /\ returned.se = "ZERO_RETURN"
        => returned.exc # "none"

\* C18: while a read, write or handshake driver is inside an engine step the
\* socket is in non-blocking mode, so that the step cannot block (least of
\* all under the mutex) and poll is the only place where a driver waits;
\* this for every interleaving, those with shutdown included.
C18_EngineStepOnNonBlockingSocket ==
    \A t \in OpThreads : pc[t] = "ssl" => ~sockBlocking

\* How far a driver is in one round of its loop: before the engine step, in
\* it, after it, in sslSelect, back at the loop test, returned.
Phase(p) ==
    CASE p = "lock" -> 0
      [] p = "ssl" -> 1
      [] p = "hs_inc" -> 2
      [] p \in {"select", "poll", "sel_lock"} -> 3
      [] p = "loop" -> 4
      [] OTHER -> 5

\* C19: the work of a driver after the cancellation is bounded.  Once
\* aliveAndKicking is 0, a driver in flight only moves forward through one
\* round of its loop (it begins at most one more engine step and enters at
\* most one more sslSelect, inside which it may poll again) and its next
\* loop test ends the call; a call entered after that goes from its first
\* loop test straight to its return, with no engine step and no wait.
C19_BoundedWorkAfterCancel ==
    [][aliveAndKicking = 0 =>
          \A t \in OpThreads :
              pc'[t] # pc[t] =>
                  CASE pc[t] = "idle" -> pc'[t] = "loop"
                    [] pc[t] = "loop" -> pc'[t] = "idle"
                    [] Phase(pc[t]) = 3 -> Phase(pc'[t]) >= 3
                    [] OTHER -> Phase(pc'[t]) > Phase(pc[t])]_vars

\* After the cancellation the reader's loop test has just ended its call,
\* and the writer is in the wait it entered.
C19_Witness ==
    /\ aliveAndKicking = 0
    /\ returned.t = "r" /\ returned.dead
    /\ pc["w"] = "poll"

\* C20, as stated: every shutdown call ends with the return from its one
\* engine step, never waits and never changes waitingThreads, and it ends
\* with an error exactly when the engine result is negative.
C20_ShutdownExactlyOneStep ==
    /\ [](pc["c"] \in {"idle", "shutdown_ssl"})
    /\ [][returned'.op = "shutdown" =>
            /\ pc["c"] = "shutdown_ssl"
            /\ UNCHANGED waitingThreads
            /\ returned'.exc = "none" <=> returned'.ret >= 0]_vars

\* C20, amended: a shutdown call makes at most one engine step, and exactly
\* one unless the descriptor is closed at entry, which ends the call with
\* the SocketException and no engine step; it never waits and changes
\* neither waitingThreads nor the pipe.  After the engine step the call
\* returns at once: with the exception a callback threw, if one did; else
\* without error for the results 0 and 1 and with the SSLException for a
\* negative result.
C20_ShutdownAtMostOneStep ==
    /\ [](pc["c"] \in {"idle", "shutdown_ssl"})
    /\ [][pc'["c"] # pc["c"] \/ returned'.op = "shutdown" =>
            /\ UNCHANGED <<waitingThreads, fdsEmergency>>
            /\ pc["c"] = "idle" =>
                  IF fdClosed
                  THEN /\ pc'["c"] = "idle"
                       /\ returned'.op = "shutdown"
                       /\ returned'.exc = "SocketException"
                  ELSE pc'["c"] = "shutdown_ssl" /\ returned' = NoReturn
            /\ pc["c"] = "shutdown_ssl" =>
                  /\ pc'["c"] = "idle"
                  /\ returned'.op = "shutdown"
                  /\ \/ returned'.exc = "RuntimeException"
                     \/ returned'.exc = "none" /\ returned'.ret \in {0, 1}
                     \/ returned'.exc = "SSLException" /\ returned'.ret < 0]_vars

\* A shutdown whose engine step reported "not yet complete" has returned
\* without error.
C20_Witness ==
    returned.op = "shutdown" /\ returned.ret = 0 /\ returned.exc = "none"

\* C21: an interrupt call stores 0 to aliveAndKicking before it writes a
\* byte to the pipe, and then calls sslNotify exactly twice, one byte each;
\* so the flag is 0 from the first of its bytes on, and a waiter that one of
\* them wakes finds it 0 at its next loop test.
C21_CancelBeforeWake ==
    /\ [](pc["i"] # "idle" => aliveAndKicking = 0)
    /\ [][pc'["i"] # pc["i"] =>
            /\ aliveAndKicking' = 0
            /\ CASE pc["i"] = "idle" ->
                      pc'["i"] = "notify1" /\ UNCHANGED fdsEmergency
                 [] pc["i"] = "notify1" ->
                      /\ pc'["i"] = "notify2"
                      /\ aliveAndKicking = 0
                      /\ fdsEmergency' = fdsEmergency + 1
                 [] OTHER ->
                      /\ pc'["i"] = "idle"
                      /\ aliveAndKicking = 0
                      /\ fdsEmergency' = fdsEmergency + 1]_vars

\* The reader's poll has returned for the first byte of an interrupt that is
\* about to write its second.
C21_Witness ==
    /\ pc["i"] = "notify2" /\ aliveAndKicking = 0
    /\ pc["r"] = "sel_lock" /\ revPipe["r"]

\* C22: the end of one sslSelect call takes at most one byte out of the
\* pipe: exactly one when poll reported fdsEmergency[0] readable and a byte
\* is still there, none otherwise, also when the poll had been retried after
\* EINTR.
C22_DrainExactlyOne ==
    [][\A t \in OpThreads :
          pc[t] = "sel_lock" /\ pc'[t] # pc[t] =>
              fdsEmergency' = IF selRes[t] > 0 /\ revPipe[t] /\ fdsEmergency > 0
                              THEN fdsEmergency - 1
                              ELSE fdsEmergency]_vars

\* C23: a poll that fails with EINTR while the descriptor is open is made
\* again inside the same sslSelect call, with the same timeout: the call does
\* not return, nothing is reported to the driver and waitingThreads stays;
\* and a call in flight keeps the timeout it was entered with for every one
\* of its waits.
C23_InterruptedPollRetried ==
    [][\A t \in OpThreads :
          /\ PollFail(t) /\ errno'[t] = EINTR /\ ~fdClosed =>
                /\ pc'[t] = "select"
                /\ selRes'[t] = 0
                /\ returned' = NoReturn
                /\ UNCHANGED <<timeout, waitingThreads, fdsEmergency>>
          /\ InFlight(t) /\ pc'[t] # "idle" => timeout'[t] = timeout[t]]_vars

\* The reader polls again, with its timeout of MaxTimeout, after a poll that
\* failed with EINTR.
C23_Witness ==
    pc["r"] = "poll" /\ errno["r"] = EINTR /\ timeout["r"] = MaxTimeout

\* C24: a poll that fails with an errno other than EINTR, and a descriptor
\* found closed by the check before the poll or after a failed poll, make
\* sslSelect end with an error result (-1, THROWN_EXCEPTION); the driver's
\* next step is then the failure of its call, with no engine step and no
\* wait in between, and with the one decrement of waitingThreads.
C24_PollFailureEndsOperation ==
    [][\A t \in OpThreads :
          /\ pc[t] = "select" /\ fdClosed /\ pc'[t] # pc[t] =>
                /\ pc'[t] = "sel_lock" /\ selRes'[t] = THROWN_EXCEPTION
                /\ UNCHANGED waitingThreads
          /\ PollFail(t) /\ (fdClosed \/ errno'[t] # EINTR) =>
                /\ pc'[t] = "sel_lock"
                /\ selRes'[t] = IF fdClosed THEN THROWN_EXCEPTION ELSE -1
                /\ UNCHANGED waitingThreads
          /\ pc[t] = "sel_lock" /\ selRes[t] < 0 /\ pc'[t] # pc[t] =>
                /\ pc'[t] = "idle"
                /\ returned'.t = t
                /\ returned'.exc \notin {"none", "SocketTimeoutException"}
                /\ waitingThreads' = waitingThreads - 1]_vars

\* The reader's sslSelect is about to end with the error result of a poll
\* that failed, while the writer is registered as a waiter too.
C24_Witness ==
    /\ op["r"] = "read" /\ pc["r"] = "sel_lock" /\ selRes["r"] = -1
    /\ errno["r"] = EOTHER /\ waitingThreads = 2

\* What an engine read or write reports when a system call inside it was
\* interrupted.
RetryableOutcome == [res |-> -1, se |-> "SYSCALL", e |-> EINTR]

\* C25: an engine step that ends with errno == EINTR (for a read or write:
\* SSL_ERROR_SYSCALL with a result other than 0) sends its driver straight
\* to its next loop test, to run the same step again: it does not call
\* sslSelect, waitingThreads and the call's length and byte counts stay, and
\* nothing is reported to Java.
C25_RetryableStepDoesNotWait ==
    [][\A t \in OpThreads :
          /\ pc[t] = "ssl"
          /\ \/ InEngineIo(t) /\ IoSwitch(t, RetryableOutcome)
             \/ pc'[t] # pc[t] /\ errno'[t] = EINTR
          => /\ pc'[t] = "loop"
             /\ returned' = NoReturn
             /\ UNCHANGED <<waitingThreads, op, count, len, written, timeout>>]_vars

\* The writer is back at its loop test after an SSL_write that was
\* interrupted, with the reader registered as a waiter.
C25_Witness ==
    /\ op["w"] = "write" /\ pc["w"] = "loop"
    /\ sslError["w"] = "SYSCALL" /\ errno["w"] = EINTR
    /\ waitingThreads = 1

\* C26: a read or write driver calls sslNotify after its engine step only if
\* the step succeeded (SSL_ERROR_NONE), having moved data, and
\* waitingThreads, read under the mutex before the driver registers itself,
\* is above 0; and it then writes one byte, no more.
C26_WakeOnlyAfterSuccess ==
    [][\A t \in OpThreads :
          InEngineIo(t) /\ pc'[t] # pc[t] /\ fdsEmergency' # fdsEmergency =>
              /\ fdsEmergency' = fdsEmergency + 1
              /\ waitingThreads > 0
              /\ (IF returned'.t = t THEN returned'.se ELSE sslError'[t]) = "NONE"]_vars

\* C27: at every loop test of a write, and all through the call, the bytes
\* confirmed by its successful SSL_write steps and the remaining length add
\* up to the length the call was entered with, and the remaining length is
\* within 0 and that length: the buffer position, advanced by the bytes
\* confirmed, is the start of the remaining suffix.
C27_WriteLoopInvariant ==
    \A t \in OpThreads :
        op[t] = "write" =>
            /\ written[t] + len[t] = count[t]
            /\ len[t] \in 0 .. count[t]
            /\ written[t] \in 0 .. count[t]

\* The writer is at its loop test with one byte confirmed and one to go.
C27_Witness ==
    /\ op["w"] = "write" /\ pc["w"] = "loop"
    /\ written["w"] = 1 /\ len["w"] = 1 /\ count["w"] = 2

\* The step of t is the entry of a handshake call.
HandshakeEntry(t) ==
    /\ pc[t] = "idle"
    /\ \/ op'[t] = "handshake"
       \/ returned'.op = "handshake" /\ returned'.t = t

\* C28: a handshake call passes the closed check, SSL_set_fd and
\* setBlocking(fd, false) before its first SSL_do_handshake: it enters its
\* loop only with an open descriptor and the socket non-blocking; with a
\* closed descriptor, or when the binding or the mode change fails, it ends
\* at once with an exception, with no engine step and no wait.
C28_HandshakePreflight ==
    /\ [](\A t \in OpThreads :
             op[t] = "handshake" /\ pc[t] = "ssl" => ~sockBlocking)
    /\ [][\A t \in OpThreads :
            /\ HandshakeEntry(t) =>
                  IF pc'[t] = "loop"
                  THEN ~fdClosed /\ ~sockBlocking' /\ returned' = NoReturn
                  ELSE /\ pc'[t] = "idle"
                       /\ returned'.exc \in {"SocketException", "SSLException"}
                       /\ UNCHANGED <<waitingThreads, sockBlocking>>
            /\ HandshakeEntry(t) /\ fdClosed => pc'[t] = "idle"
            /\ op'[t] = "handshake" /\ pc'[t] = "ssl" /\ pc[t] # "ssl" =>
                  pc[t] = "loop"]_vars

\* A handshake has just failed in its pre-flight on a socket that is still
\* in blocking mode and open.
C28_Witness ==
    /\ returned.op = "handshake" /\ returned.exc = "SSLException"
    /\ sockBlocking /\ ~fdClosed

\* C29: a handshake ends with "Connection closed by peer" exactly when its
\* last SSL_do_handshake reported the clean end of the stream
\* (SSL_ERROR_ZERO_RETURN); every other failure of the engine is reported as
\* aborted or terminated, and a handshake none of whose steps reported the
\* end of the stream never reports the peer's close.
C29_PeerClosedOnlyOnEndOfStream ==
    returned.op = "handshake" =>
        (returned.exc = "SSLHandshakeException:closed"
            <=> returned.se = "ZERO_RETURN")

\* C30: a write that waits for the socket after WANT_READ / WANT_WRITE
\* waits without a time limit: whatever write timeout it was called with, it
\* never ends with the timeout failure.
C30_WriteNeverTimesOut ==
    returned.op = "write" => returned.exc # "SocketTimeoutException"


\* An engine step's outcome that is none of success, the clean end of the
\* stream, WANT_READ / WANT_WRITE or the interrupted system call: what the
\* drivers' switch leaves to "case SSL_ERROR_SYSCALL" and "default".
Fatal(o) ==
    /\ o.se \notin {"NONE", "ZERO_RETURN", "WANT_READ", "WANT_WRITE"}
    /\ ~(o.se = "SYSCALL" /\ o.e = EINTR)

\* The exceptions throwSSLExceptionWithSslErrors raises from the engine's
\* error: SSLException for read and write, and the handshake's "terminated"
\* and "aborted".
ProtocolErrors ==
    {"SSLException", "SSLHandshakeException:terminated",
     "SSLHandshakeException:aborted"}

\* The step of t is the end of an engine step that reported o.
EngineStepReports(t, o) ==
    /\ pc[t] = "ssl"
    /\ \/ /\ op[t] \in {"read", "write"} /\ o \in IoOutcomes(t)
          /\ IoSwitch(t, o)
       \/ /\ op[t] = "handshake" /\ o \in HandshakeOutcomes
          /\ o.res # 1 /\ o.e # EINTR /\ ~IsWant(o.se)
          /\ ReturnWith(t, 0, HandshakeTail(o.res, o.se, o.e), FALSE, o.se, 0)

\* C31: an engine step with a fatal outcome ends the read, write or
\* handshake in that step with an exception made from the engine's error,
\* with no further engine step and no wait, and leaves waitingThreads as it
\* was.
C31_FatalStepEndsOperation ==
    [][\A t \in OpThreads :
          \A o \in IoOutcomes(t) \cup HandshakeOutcomes :
              Fatal(o) /\ EngineStepReports(t, o) =>
                  /\ pc'[t] = "idle"
                  /\ returned'.t = t
                  /\ returned'.exc \in ProtocolErrors
                  /\ waitingThreads' = waitingThreads]_vars


InNotify == notifyPc # "idle" \/ notifyPc' # "idle"

\* C34: sslNotify leaves the caller's errno as it found it: whatever errno
\* was at the call and whatever the write did (put the byte in, was
\* interrupted and tried again, failed otherwise), errno at the return is
\* errno at the call; and no step of sslNotify changes aliveAndKicking or
\* waitingThreads.
C34_NotifyKeepsErrno ==
    /\ [][notifyPc # "idle" /\ notifyPc' = "idle" =>
              errno'[NotifyCaller] = notifyEntry]_vars
    /\ [][InNotify => UNCHANGED <<aliveAndKicking, waitingThreads>>]_vars

\* A call entered with errno EINTR has a failed write behind it (errno is
\* EOTHER) and is about to restore errno.
C34_Witness ==
    /\ notifyPc = "restore" /\ notifyEntry = EINTR
    /\ errno[NotifyCaller] = EOTHER /\ notifyWrote = 0


\* C35: one sslNotify call puts at most one byte into the emergency pipe;
\* its write loop runs again only after a write that was interrupted
\* (EINTR), and ends with exactly one byte written unless the write failed
\* with another error, in which case nothing was written; that error is
\* dropped: the call returns like any other and hands no failure to the
\* operation that called it.
C35_NotifyWritesOneByte ==
    /\ [](notifyWrote \in {0, 1})
    /\ [][sslNotifyWrite =>
            IF notifyPc' = "write"
            THEN errno'[NotifyCaller] = EINTR /\ notifyWrote' = 0
            ELSE /\ notifyPc' = "restore"
                 /\ errno'[NotifyCaller] \in {E0, EOTHER}
                 /\ notifyWrote' = (IF errno'[NotifyCaller] = EOTHER THEN 0 ELSE 1)
                 /\ fdsEmergency' = fdsEmergency + notifyWrote']_vars
    /\ [][InNotify => UNCHANGED <<returned, pc, op>>]_vars

\* The write of a call entered with errno 0 was interrupted on the full
\* pipe, a waiter has read a token since, and the write is about to be tried
\* again.
C35_Witness ==
    /\ notifyPc = "write" /\ notifyEntry = E0 /\ errno[NotifyCaller] = EINTR
    /\ notifyWrote = 0 /\ fdsEmergency < PipeCapacity


\* C36: the mutex is held only by a read or write driver that is inside its
\* engine step: never by a thread that is registered for, blocked in or
\* back from poll, and never by a thread that has returned to Java, whatever
\* the path of the return (init not finished, closed descriptor, callback
\* exception, any result of the step); and the holder's next step frees it,
\* so that a thread waiting for the mutex waits for one engine step of
\* another thread (the token read takes and frees the mutex in one step).
C36_MutexHeldForOneStep ==
    /\ [](\A t \in Threads : mutex = t => t \in OpThreads /\ InEngineIo(t))
    /\ [][\A t \in OpThreads :
            /\ mutex = t /\ pc'[t] # pc[t] => mutex' = "free"
            /\ mutex' = t /\ mutex # t => pc[t] = "lock" /\ pc'[t] = "ssl"]_vars

\* The read has just failed under the lock because the handshake is not
\* finished, while the writer stands before the lock.
C36_Witness ==
    /\ returned.op = "read" /\ returned.exc = "SSLException" /\ returned.se = "NONE"
    /\ ~initFinished /\ mutex = "free"
    /\ pc["w"] = "lock"


\* C37: a read or write driver that may have to call sslNotify at the end of
\* its engine step, under the mutex (another thread is counted as waiting),
\* never finds the emergency pipe full: the write of sslNotify cannot block
\* while the mutex the waiters need for their token read is held.
C37_WakeUnderMutexNeverBlocks ==
    \A t \in OpThreads :
        InEngineIo(t) /\ mutex = t /\ waitingThreads > 0 => sslNotifyCanWrite


\* C38: a read or write of length > 0 that comes to the lock while the
\* handshake is not finished (and neither false start nor a renegotiation
\* applies) fails in that round of its loop with an SSLException: it makes
\* no SSL_read / SSL_write call and no wait, and leaves waitingThreads, the
\* emergency pipe and the mutex as they were.
C38_NoIoBeforeHandshake ==
    [][\A t \in OpThreads :
          pc[t] = "lock" /\ ~initFinished /\ pc'[t] # pc[t] =>
              /\ pc'[t] = "idle"
              /\ returned'.t = t /\ returned'.exc = "SSLException"
              /\ returned'.count > 0
              /\ UNCHANGED <<waitingThreads, fdsEmergency, mutex>>]_vars

\* A write has just failed because the handshake is not finished (sslError
\* holds no engine error), with the reader in a step of its own.
C38_Witness ==
    /\ returned.op = "write" /\ returned.exc = "SSLException" /\ returned.se = "NONE"
    /\ returned.count > 0 /\ ~initFinished
    /\ pc["r"] # "idle"

=============================================================================
